---------------------------- MODULE Spec2Model ----------------------------
(***************************************************************************)
(* A model of package flow (src/src/transport/flow/flow.go): the Pipe, an  *)
(* in-memory Conn built from one unbuffered channel and one close channel, *)
(* the Flow executor Test, and the timeout wrapper TestAsync.              *)
(*                                                                         *)
(* Go's select is modelled as the runtime executes it: on entry the cases  *)
(* are polled under the channels' locks, one of the ready cases is taken   *)
(* at random, and only when none is ready is the goroutine parked on every *)
(* channel of the select.  A parked goroutine is completed by exactly one  *)
(* event: a partner arriving on the pipe channel, or the close of the      *)
(* close channel (which wakes every goroutine parked on it).               *)
(***************************************************************************)
EXTENDS Naturals, Sequences, FiniteSets

----------------------------------------------------------------------------
(* Bounds of the model *)

\* calls each free caller of the Pipe may issue
MaxCalls == 2
\* calls the scripted peer of an executor may issue
MaxPeerCalls == 3
\* calls the peer of a flow run by TestAsync may issue
MaxAsyncPeerCalls == 2
\* calls the peer may issue where the goroutine of TestAsync is followed
\* to its end
MaxBriefPeerCalls == 1
\* calls the peer of a flow that is run again may issue in each run
MaxRerunPeerCalls == 2
\* builder calls made on one flow
MaxFlowLen == 2
\* times Test is run on one flow
MaxRuns == 2
\* last instant of the clock
MaxTime == 3
\* longest timeout handed to TestAsync
MaxTimeout == 2

----------------------------------------------------------------------------
(* Values *)

\* Go's nil packet.GenericPacket
NoPkt == [type |-> "nil"]

Connect == [type |-> "CONNECT"]
Connack == [type |-> "CONNACK"]
Publish == [type |-> "PUBLISH"]

Packets == {Connect, Connack, Publish}

\* what a caller may pass to Send: any packet value, nil included
PktValues == Packets \cup {NoPkt}

\* packet.GenericPacket.String(): the canonical rendering of a packet
String(pkt) == pkt.type

\* An error is its text, a sequence of words; the nil error has no text.
NoErr == <<>>

\* errors.New("already closed"), flow.go line 41
ErrAlreadyClosed == <<"already closed">>

\* io.EOF
EOF == <<"EOF">>

\* strings.Contains(err.Error(), "EOF")
ContainsEOF(err) == \E i \in 1..Len(err) : err[i] = "EOF"

\* The tasks (goroutines) that use the Pipe
Callers == {"a", "b", "c"}
Exec == "exec"
Peer == "peer"
Tasks == Callers \cup {Exec, Peer}

----------------------------------------------------------------------------
VARIABLES
    closed,     \* Pipe.close has been closed
    sendq,      \* goroutines parked in Send's select, in arrival order
    recvq,      \* goroutines parked in Receive's select, in arrival order
    cst,        \* per task: "idle" (not inside a Pipe call) or "parked"
    arg,        \* per task: the Pipe call it is parked in
    last,       \* per task: the result of the Pipe call it completed last
    panicked,   \* the runtime panic that ended the program, or "none"
    left,       \* per free caller: calls it may still issue
    script,     \* the scripted peer's calls
    ppc,        \* the scripted peer's next call
    nSendNil,   \* history: Sends that returned nil
    nRecvPkt,   \* history: Receives that returned without error
    sentLog,    \* history: the packets of the Sends that returned nil
    recvLog,    \* history: the packets the Receives returned without error
    woken,      \* history: the tasks Close found parked and woke
    conn,       \* the Conn handed to Test: "pipe" or "stub"
    flow,       \* Flow.actions
    pc,         \* Test: index of the action of the range loop
    phase,      \* Test: where the executor stands inside that action
    testErr,    \* Test: the returned error
    trace,      \* history: begin/end of each action Test ran
    fnBusy,     \* the function of a run action is executing
    effects,    \* calls of action.fn that have returned
    sig,        \* the channel of the wait actions has been closed
    wakeAt,     \* time.Sleep: the instant the executor may resume
    onTime,     \* history: Test returned before the deadline of TestAsync
    prev,       \* history: the results of the earlier runs of Test
    calls,      \* history: the builder calls made on the flow
    now,        \* the clock
    timeout,    \* TestAsync: its timeout argument
    deadline,   \* TestAsync: the instant time.After's channel is ready
    gst,        \* TestAsync: where its goroutine stands
    errCh,      \* TestAsync: the result channel (capacity 1)
    delivered   \* values the caller of TestAsync has read from errCh

pipeVars == <<closed, sendq, recvq, cst, arg, last, panicked,
              nSendNil, nRecvPkt, sentLog, recvLog, woken>>
peerVars == <<left, script, ppc>>
testVars == <<conn, flow, pc, phase, testErr, trace, fnBusy, effects, sig,
              wakeAt, onTime, prev, calls>>
asyncVars == <<now, timeout, deadline, gst, errCh, delivered>>
vars == <<pipeVars, peerVars, testVars, asyncVars>>

----------------------------------------------------------------------------
(* The Pipe: flow.go lines 21-59 *)

NoCall == [op |-> "none", pkt |-> NoPkt]

\* the record of a completed Pipe call: its operation, the packet the
\* sender passed, the packet and error returned, the task on the other
\* side of the channel operation ("none" when the close case was taken),
\* and whether Close had been called when the call completed
Ret(op, sent, pkt, err, peer, after) ==
    [op |-> op, sent |-> sent, pkt |-> pkt, err |-> err, peer |-> peer,
     afterClose |-> after]

NoRet == Ret("none", NoPkt, NoPkt, NoErr, "none", FALSE)

\* NewPipe: both channels open and unbuffered, nobody parked
NewPipe ==
    /\ closed = FALSE
    /\ sendq = <<>>
    /\ recvq = <<>>
    /\ cst = [t \in Tasks |-> "idle"]
    /\ arg = [t \in Tasks |-> NoCall]
    /\ last = [t \in Tasks |-> NoRet]
    /\ panicked = "none"
    /\ nSendNil = 0
    /\ nRecvPkt = 0
    /\ sentLog = <<>>
    /\ recvLog = <<>>
    /\ woken = {}

\* 1 when a call returned the nil error
IsNil(err) == IF err = NoErr THEN 1 ELSE 0

\* a Send that returns nil from its close case
SendClosedReturnsNil == NoErr

\* Send, case <-conn.close
SendClosedResult == ErrAlreadyClosed

\* Receive, case <-conn.close
ReceiveClosedResult == [pkt |-> NoPkt, err |-> EOF]

\* a Receive that returns the zero value instead of the received packet
ReceivedZero(pkt) == NoPkt

\* Receive, case pkt := <-conn.pipe: the value the channel hands over
Received(pkt) == pkt

\* Send, case conn.pipe <- pkt: possible when a receiver is parked on pipe
SendCanProceed == recvq # <<>>

\* Receive, case pkt := <-conn.pipe: possible when a sender is parked on pipe
ReceiveCanProceed == sendq # <<>>

\* the rendezvous of sender s (passing pkt) and receiver r on Pipe.pipe:
\* Send returns nil, Receive returns the packet and nil
Rendezvous(s, r, pkt) ==
    /\ last' = [last EXCEPT
                  ![s] = Ret("send", pkt, NoPkt, NoErr, r, closed),
                  ![r] = Ret("recv", pkt, Received(pkt), NoErr, s, closed)]
    /\ nSendNil' = nSendNil + 1
    /\ nRecvPkt' = nRecvPkt + 1
    /\ sentLog' = Append(sentLog, pkt)
    /\ recvLog' = Append(recvLog, Received(pkt))

\* Pipe.Send(pkt) called by task t
PipeSend(t, pkt) ==
    \/ /\ SendCanProceed
       /\ Rendezvous(t, Head(recvq), pkt)
       /\ recvq' = Tail(recvq)
       /\ cst' = [cst EXCEPT ![Head(recvq)] = "idle"]
       /\ arg' = [arg EXCEPT ![Head(recvq)] = NoCall]
       /\ UNCHANGED <<closed, sendq, panicked, woken>>
    \/ /\ closed
       /\ last' = [last EXCEPT
                     ![t] = Ret("send", pkt, NoPkt, SendClosedResult,
                                "none", closed)]
       /\ nSendNil' = nSendNil + IsNil(SendClosedResult)
       /\ sentLog' = IF SendClosedResult = NoErr THEN Append(sentLog, pkt)
                     ELSE sentLog
       /\ UNCHANGED <<closed, sendq, recvq, cst, arg, panicked, nRecvPkt,
                      recvLog, woken>>
    \/ /\ ~SendCanProceed
       /\ ~closed
       /\ sendq' = Append(sendq, t)
       /\ cst' = [cst EXCEPT ![t] = "parked"]
       /\ arg' = [arg EXCEPT ![t] = [op |-> "send", pkt |-> pkt]]
       /\ UNCHANGED <<closed, recvq, last, panicked, nSendNil, nRecvPkt,
                      sentLog, recvLog, woken>>

\* Pipe.Receive() called by task t
PipeReceive(t) ==
    \/ /\ ReceiveCanProceed
       /\ Rendezvous(Head(sendq), t, arg[Head(sendq)].pkt)
       /\ sendq' = Tail(sendq)
       /\ cst' = [cst EXCEPT ![Head(sendq)] = "idle"]
       /\ arg' = [arg EXCEPT ![Head(sendq)] = NoCall]
       /\ UNCHANGED <<closed, recvq, panicked, woken>>
    \/ /\ closed
       /\ last' = [last EXCEPT
                     ![t] = Ret("recv", NoPkt, ReceiveClosedResult.pkt,
                                ReceiveClosedResult.err, "none", closed)]
       /\ nRecvPkt' = nRecvPkt + IsNil(ReceiveClosedResult.err)
       /\ recvLog' = IF ReceiveClosedResult.err = NoErr
                     THEN Append(recvLog, ReceiveClosedResult.pkt)
                     ELSE recvLog
       /\ UNCHANGED <<closed, sendq, recvq, cst, arg, panicked, nSendNil,
                      sentLog, woken>>
    \/ /\ ~ReceiveCanProceed
       /\ ~closed
       /\ recvq' = Append(recvq, t)
       /\ cst' = [cst EXCEPT ![t] = "parked"]
       /\ arg' = [arg EXCEPT ![t] = [op |-> "recv", pkt |-> NoPkt]]
       /\ UNCHANGED <<closed, sendq, last, panicked, nSendNil, nRecvPkt,
                      sentLog, recvLog, woken>>

\* what a goroutine parked in a select gets when the close channel closes
WokenByClose(u) ==
    IF arg[u].op = "send"
    THEN Ret("send", arg[u].pkt, NoPkt, SendClosedResult, "none", TRUE)
    ELSE Ret("recv", NoPkt, ReceiveClosedResult.pkt,
             ReceiveClosedResult.err, "none", TRUE)

\* a Close that marks the Pipe closed and leaves the parked goroutines
\* parked (a flag instead of a closed channel)
PipeCloseNoWake(t) ==
    /\ ~closed
    /\ closed' = TRUE
    /\ last' = [last EXCEPT
                  ![t] = Ret("close", NoPkt, NoPkt, NoErr, "none", closed)]
    /\ UNCHANGED <<sendq, recvq, cst, arg, panicked, nSendNil, nRecvPkt,
                   sentLog, recvLog, woken>>

\* a Close that closes the channel once only (as under a sync.Once) and
\* returns nil every time
CloseOfClosedIgnored(t) ==
    /\ last' = [last EXCEPT
                  ![t] = Ret("close", NoPkt, NoPkt, NoErr, "none", closed)]
    /\ UNCHANGED <<closed, sendq, recvq, cst, arg, panicked,
                   nSendNil, nRecvPkt, sentLog, recvLog, woken>>

\* line 57, close(conn.close) on a closed channel: a runtime panic, which
\* nothing in the package recovers
CloseOfClosed(t) ==
    /\ panicked' = "close of closed channel"
    /\ UNCHANGED <<closed, sendq, recvq, cst, arg, last,
                   nSendNil, nRecvPkt, sentLog, recvLog, woken>>

\* Pipe.Close() called by task t: close(conn.close) panics on a closed
\* channel; otherwise it wakes every goroutine parked on it and returns nil
PipeClose(t) ==
    \/ /\ closed
       /\ CloseOfClosed(t)
    \/ /\ ~closed
       /\ closed' = TRUE
       /\ sendq' = <<>>
       /\ recvq' = <<>>
       /\ cst' = [u \in Tasks |-> "idle"]
       /\ arg' = [u \in Tasks |-> NoCall]
       /\ last' = [u \in Tasks |->
                     IF u = t
                     THEN Ret("close", NoPkt, NoPkt, NoErr, "none", closed)
                     ELSE IF cst[u] = "parked" THEN WokenByClose(u)
                     ELSE last[u]]
       /\ nSendNil' = nSendNil + Len(sendq) * IsNil(SendClosedResult)
       /\ nRecvPkt' = nRecvPkt + Len(recvq) * IsNil(ReceiveClosedResult.err)
       /\ sentLog' = IF SendClosedResult = NoErr
                     THEN sentLog \o [i \in 1..Len(sendq) |-> arg[sendq[i]].pkt]
                     ELSE sentLog
       /\ recvLog' = IF ReceiveClosedResult.err = NoErr
                     THEN recvLog \o [i \in 1..Len(recvq) |->
                                        ReceiveClosedResult.pkt]
                     ELSE recvLog
       /\ woken' = {u \in Tasks : cst[u] = "parked"}
       /\ UNCHANGED panicked

----------------------------------------------------------------------------
(* Free callers: goroutines that call the Pipe's methods directly, in any  *)
(* order, as the goroutines of a test do (part_000 lines 17-44).           *)

Running == panicked = "none"

CanCall(t) ==
    /\ Running
    /\ cst[t] = "idle"
    /\ left[t] > 0

CallSend(t, pkt) ==
    /\ CanCall(t)
    /\ PipeSend(t, pkt)
    /\ left' = [left EXCEPT ![t] = @ - 1]
    /\ UNCHANGED <<script, ppc, testVars, asyncVars>>

CallReceive(t) ==
    /\ CanCall(t)
    /\ PipeReceive(t)
    /\ left' = [left EXCEPT ![t] = @ - 1]
    /\ UNCHANGED <<script, ppc, testVars, asyncVars>>

CallClose(t) ==
    /\ CanCall(t)
    /\ PipeClose(t)
    /\ left' = [left EXCEPT ![t] = @ - 1]
    /\ UNCHANGED <<script, ppc, testVars, asyncVars>>

\* no flow under test
NoTest ==
    /\ conn = "pipe"
    /\ flow = <<>>
    /\ pc = 1
    /\ phase = "unused"
    /\ testErr = NoErr
    /\ trace = <<>>
    /\ fnBusy = FALSE
    /\ effects = 0
    /\ sig = FALSE
    /\ wakeAt = 0
    /\ onTime = FALSE
    /\ prev = <<>>
    /\ calls = <<>>

\* no TestAsync
NoAsync ==
    /\ now = 0
    /\ timeout = 0
    /\ deadline = 0
    /\ gst = "unused"
    /\ errCh = <<>>
    /\ delivered = <<>>

Init ==
    /\ NewPipe
    /\ left = [t \in Tasks |-> IF t \in Callers THEN MaxCalls ELSE 0]
    /\ script = <<>>
    /\ ppc = 1
    /\ NoTest
    /\ NoAsync

Next ==
    \/ \E t \in Callers : \E pkt \in PktValues : CallSend(t, pkt)
    \/ \E t \in Callers : CallReceive(t)
    \/ \E t \in Callers : CallClose(t)

Spec == Init /\ [][Next]_vars

----------------------------------------------------------------------------
(* Properties of the Pipe, checked under Spec *)

\* C1: once Close has been called, every Send that completes (parked at the
\* close or issued after it) returns the "already closed" error, never nil,
\* and every Receive that completes returns no packet and io.EOF.
ClosePropagates ==
    \A t \in Tasks :
        last[t].afterClose =>
            /\ last[t].op = "send" =>
                   /\ last[t].err = ErrAlreadyClosed
                   /\ last[t].err # NoErr
            /\ last[t].op = "recv" =>
                   /\ last[t].pkt = NoPkt
                   /\ last[t].err = EOF

\* a closer, and a sender and a receiver that both completed after the close
ClosePropagatesWitness ==
    \E c, s, r \in Callers :
        /\ last[c].op = "close"
        /\ last[s].op = "send" /\ last[s].afterClose
        /\ last[r].op = "recv" /\ last[r].afterClose

\* C2: the Pipe never buffers: Sends that returned nil and Receives that
\* returned a packet are equally many, a Send that returned nil was taken by
\* a Receive of another task, and a Send returns otherwise only after Close.
NoBuffering ==
    /\ nSendNil = nRecvPkt
    /\ \A t \in Tasks :
           last[t].op = "send" =>
               \/ /\ last[t].err = NoErr
                  /\ last[t].peer \in Tasks \ {t}
               \/ /\ last[t].err # NoErr
                  /\ last[t].afterClose

\* a Send has returned nil while another Send is parked without a receiver
NoBufferingWitness ==
    /\ nSendNil > 0
    /\ \E s, u \in Callers :
           /\ last[s].op = "send" /\ last[s].err = NoErr
           /\ cst[u] = "parked" /\ arg[u].op = "send"
           /\ recvq = <<>> /\ ~closed

\* C3: on an open Pipe a Send(P) and a Receive that pair both return without
\* error and the Receive returns P (same value, same rendering).
RendezvousCorrect ==
    \A t \in Tasks :
        (last[t].peer # "none" /\ ~last[t].afterClose) =>
            /\ last[t].err = NoErr
            /\ last[t].op = "recv" =>
                   /\ last[t].pkt = last[t].sent
                   /\ String(last[t].pkt) = String(last[t].sent)

\* a Receive paired with a Send of a PUBLISH packet on the open Pipe
RendezvousCorrectWitness ==
    \E s, r \in Callers :
        /\ last[r].op = "recv" /\ last[r].peer = s /\ ~last[r].afterClose
        /\ last[s].op = "send" /\ last[s].peer = r
        /\ last[s].sent = Publish

\* no call is parked on a closed Pipe, and Close itself never parks
NobodyBlockedAfterClose ==
    /\ closed => sendq = <<>> /\ recvq = <<>>
    /\ \A t \in Tasks :
           cst[t] = "parked" => ~closed /\ arg[t].op \in {"send", "recv"}

\* the step that closes the Pipe: the closer is back with nil, and every
\* call found parked is back with the result of its close case
ClosingStep ==
    (~closed /\ closed') =>
        /\ \E c \in Tasks :
               /\ cst[c] = "idle" /\ cst'[c] = "idle"
               /\ last'[c].op = "close" /\ last'[c].err = NoErr
        /\ \A t \in Tasks :
               cst[t] = "parked" =>
                   /\ cst'[t] = "idle"
                   /\ t \in woken'
                   /\ last'[t].afterClose
                   /\ arg[t].op = "send" =>
                          /\ last'[t].op = "send"
                          /\ last'[t].sent = arg[t].pkt
                          /\ last'[t].err = ErrAlreadyClosed
                   /\ arg[t].op = "recv" =>
                          /\ last'[t].op = "recv"
                          /\ last'[t].pkt = NoPkt
                          /\ last'[t].err = EOF

\* C11: Close does not block its caller, and every Send or Receive that is
\* blocked on the Pipe when Close is called returns, Send with the closed
\* error and Receive with end-of-stream: no call is blocked on the Pipe
\* once it is closed.
CloseUnblocks == []NobodyBlockedAfterClose /\ [][ClosingStep]_vars

\* a Close found two Sends blocked, and both have returned the closed error
CloseUnblocksWitness ==
    /\ closed
    /\ Cardinality(woken) = 2
    /\ \A t \in woken :
           /\ cst[t] = "idle"
           /\ last[t].op = "send"
           /\ last[t].err = ErrAlreadyClosed
           /\ last[t].peer = "none"

\* C18: the Pipe delivers each successfully sent packet exactly once and in
\* order: the packets of the Sends that returned nil, in the order of
\* their hand-off, are the packets the Receives returned, one Receive
\* each, none lost, none twice, none out of order; so the successive
\* Sends of one sender reach the successive Receives of one receiver in the
\* order they were sent.
DeliveredOnceInOrder ==
    /\ recvLog = sentLog
    /\ Len(sentLog) = nSendNil
    /\ Len(recvLog) = nRecvPkt
    /\ \A t \in Tasks :
           (last[t].op = "recv" /\ last[t].err = NoErr) =>
               \E i \in 1..Len(recvLog) :
                   /\ recvLog[i] = last[t].pkt
                   /\ sentLog[i] = last[t].sent

\* one sender has sent CONNECT and then PUBLISH, one receiver has received
\* CONNECT and then PUBLISH, and no other task has called the Pipe
DeliveredOnceInOrderWitness ==
    \E s, r \in Callers :
        /\ s # r
        /\ sentLog = <<Connect, Publish>>
        /\ recvLog = <<Connect, Publish>>
        /\ last[s].op = "send" /\ last[s].peer = r
        /\ last[r].op = "recv" /\ last[r].peer = s
        /\ \A t \in Tasks \ {s, r} : last[t] = NoRet /\ cst[t] = "idle"


----------------------------------------------------------------------------
(* Flows: flow.go lines 61-169 and 234-237 *)

\* one step of a flow; fn and ch are the one side effect and the one
\* signal channel of the model
Action(kind, packet, duration) ==
    [kind |-> kind, packet |-> packet, duration |-> duration]

\* New
New == <<>>

\* an add that puts the action in front of the others
addFront(f, action) == <<action>> \o f

\* Flow.add
add(f, action) == Append(f, action)

\* the builder methods
FlowSend(f, pkt) == add(f, Action("send", pkt, 0))
FlowReceive(f, pkt) == add(f, Action("receive", pkt, 0))
FlowSkip(f) == add(f, Action("skip", NoPkt, 0))
FlowWait(f) == add(f, Action("wait", NoPkt, 0))
FlowRun(f) == add(f, Action("run", NoPkt, 0))
FlowDelay(f, d) == add(f, Action("delay", NoPkt, d))
FlowClose(f) == add(f, Action("close", NoPkt, 0))
FlowEnd(f) == add(f, Action("end", NoPkt, 0))

\* the client side of the handshake of abstractServerTest, as a flow
ScenarioFlow ==
    FlowEnd(FlowClose(FlowReceive(FlowSend(New, Connect), Connack)))

\* the flows the executor is run with: every kind of action, in first and
\* in later positions
TestFlows ==
    { New,
      ScenarioFlow,
      FlowEnd(FlowSend(FlowReceive(New, Connect), Connack)),
      FlowClose(FlowSend(FlowRun(FlowSkip(New)), NoPkt)),
      FlowRun(FlowReceive(FlowDelay(FlowWait(New), 1), Publish)),
      FlowRun(FlowEnd(New)),
      FlowClose(FlowClose(New)),
      FlowClose(FlowDelay(New, 2)),
      FlowSend(FlowReceive(FlowSend(New, Connect), NoPkt), Connack) }

----------------------------------------------------------------------------
(* A Conn that is not a Pipe: any implementation of the interface of       *)
(* flow.go lines 15-19, returning whatever its transport reports.          *)

StubSendErrs == {NoErr, <<"broken pipe">>}
StubReceiveErrs == {NoErr, EOF, <<"unexpected", "EOF">>, <<"connection reset">>}
StubCloseErrs == {NoErr, <<"use of closed connection">>}

StubReturn(t, ret) ==
    /\ last' = [last EXCEPT ![t] = ret]
    /\ UNCHANGED <<closed, sendq, recvq, cst, arg, panicked,
                   nSendNil, nRecvPkt, sentLog, recvLog, woken>>

ConnSend(t, pkt) ==
    IF conn = "pipe" THEN PipeSend(t, pkt)
    ELSE \E err \in StubSendErrs :
             StubReturn(t, Ret("send", pkt, NoPkt, err, "none", FALSE))

ConnReceive(t) ==
    IF conn = "pipe" THEN PipeReceive(t)
    ELSE \E pkt \in PktValues : \E err \in StubReceiveErrs :
             StubReturn(t, Ret("recv", NoPkt, pkt, err, "none", FALSE))

ConnClose(t) ==
    IF conn = "pipe" THEN PipeClose(t)
    ELSE \E err \in StubCloseErrs :
             StubReturn(t, Ret("close", NoPkt, NoPkt, err, "none", FALSE))

----------------------------------------------------------------------------
(* Flow.Test: flow.go lines 172-217 *)

Ok == [kind |-> "ok", err |-> NoErr]
Fail(err) == [kind |-> "error", err |-> err]
\* a method call on a nil interface value
Panic == [kind |-> "panic", err |-> NoErr]

\* a send case that drops the error of conn.Send
SendOutcomeIgnored(a, ret) == Ok

\* case actionSend, lines 175-179
SendOutcome(a, ret) ==
    IF ret.err # NoErr
    THEN Fail(<<"error sending packet:">> \o ret.err)
    ELSE Ok

\* a receive case that does not compare the renderings
ReceiveOutcomeUnmatched(a, ret) ==
    IF ret.err # NoErr
    THEN Fail(<<"expected to receive a packet but got error:">> \o ret.err)
    ELSE IF a.packet = NoPkt \/ ret.pkt = NoPkt
    THEN Panic
    ELSE Ok

\* case actionReceive, lines 180-188
ReceiveOutcome(a, ret) ==
    IF ret.err # NoErr
    THEN Fail(<<"expected to receive a packet but got error:">> \o ret.err)
    ELSE IF a.packet = NoPkt \/ ret.pkt = NoPkt
    THEN Panic
    ELSE IF String(a.packet) # String(ret.pkt)
    THEN Fail(<<"expected packet of", String(a.packet),
                "but got", String(ret.pkt)>>)
    ELSE Ok

\* case actionSkip, lines 189-193
SkipOutcome(a, ret) ==
    IF ret.err # NoErr
    THEN Fail(<<"expected to skip over a received packet but got error:">>
              \o ret.err)
    ELSE Ok

\* case actionClose, lines 200-204
CloseOutcome(a, ret) ==
    IF ret.err # NoErr
    THEN Fail(<<"expected connection to close successfully but got error:">>
              \o ret.err)
    ELSE Ok

\* case actionEnd, lines 205-212
EndOutcome(a, ret) ==
    IF ret.err # NoErr /\ ~ContainsEOF(ret.err)
    THEN Fail(<<"expected EOF but got">> \o ret.err)
    ELSE IF ret.pkt # NoPkt
    THEN Fail(<<"expected no packet but got", String(ret.pkt)>>)
    ELSE Ok

\* the switch of Test applied to what the connection call returned
Outcome(a, ret) ==
    CASE a.kind = "send" -> SendOutcome(a, ret)
      [] a.kind = "receive" -> ReceiveOutcome(a, ret)
      [] a.kind = "skip" -> SkipOutcome(a, ret)
      [] a.kind = "close" -> CloseOutcome(a, ret)
      [] a.kind = "end" -> EndOutcome(a, ret)

\* a loop that pops each action it has executed off f.actions
RangeActionsConsumed == flow' = Tail(flow)

\* line 173: the loop ranges over f.actions and assigns nothing to it
RangeActions == flow' = flow

\* the action completed: the range loop moves on
Completed ==
    /\ trace' = Append(trace, <<"end", pc>>)
    /\ pc' = pc + 1
    /\ phase' = "loop"
    /\ RangeActions

\* what Test does with the outcome of an action: next iteration, return
\* the error, or die of the panic
Advance(out) ==
    \/ /\ out.kind = "ok"
       /\ Completed
       /\ UNCHANGED <<testErr, panicked, onTime>>
    \/ /\ out.kind = "error"
       /\ phase' = "returned"
       /\ testErr' = out.err
       /\ onTime' = (now < deadline)
       /\ UNCHANGED <<pc, trace, panicked, flow>>
    \/ /\ out.kind = "panic"
       /\ panicked' = "nil pointer dereference"
       /\ UNCHANGED <<pc, phase, testErr, trace, flow, onTime>>

AtAction(kinds) ==
    /\ Running
    /\ phase = "loop"
    /\ pc <= Len(flow)
    /\ flow[pc].kind \in kinds

Begun == trace' = Append(trace, <<"begin", pc>>)

\* line 176: conn.Send(action.packet)
BeginSend ==
    /\ AtAction({"send"})
    /\ ConnSend(Exec, flow[pc].packet)
    /\ Begun
    /\ phase' = "call"
    /\ UNCHANGED <<peerVars, conn, flow, onTime, prev,
                   calls, pc, testErr, fnBusy, effects, sig,
                   wakeAt, asyncVars>>

\* lines 181, 190, 206: conn.Receive()
BeginReceive ==
    /\ AtAction({"receive", "skip", "end"})
    /\ ConnReceive(Exec)
    /\ Begun
    /\ phase' = "call"
    /\ UNCHANGED <<peerVars, conn, flow, onTime, prev,
                   calls, pc, testErr, fnBusy, effects, sig,
                   wakeAt, asyncVars>>

\* line 201: conn.Close()
BeginClose ==
    /\ AtAction({"close"})
    /\ ConnClose(Exec)
    /\ Begun
    /\ phase' = "call"
    /\ UNCHANGED <<peerVars, conn, flow, onTime, prev,
                   calls, pc, testErr, fnBusy, effects, sig,
                   wakeAt, asyncVars>>

\* the connection call has returned: the rest of the case
Check ==
    /\ Running
    /\ phase = "call"
    /\ cst[Exec] = "idle"
    /\ Advance(Outcome(flow[pc], last[Exec]))
    /\ UNCHANGED <<closed, sendq, recvq, cst, arg, last, nSendNil, nRecvPkt,
                   sentLog, recvLog, woken,
                   peerVars, conn, prev,
                   calls, fnBusy, effects, sig, wakeAt,
                   asyncVars>>

\* line 195: <-action.ch
BeginWait ==
    /\ AtAction({"wait"})
    /\ Begun
    /\ phase' = "wait"
    /\ UNCHANGED <<pipeVars, peerVars, conn, flow, onTime, prev,
                   calls, pc, testErr, fnBusy,
                   effects, sig, wakeAt, asyncVars>>

EndWait ==
    /\ Running
    /\ phase = "wait"
    /\ sig
    /\ Completed
    /\ UNCHANGED <<pipeVars, peerVars, conn, onTime, prev,
                   calls, testErr, fnBusy, effects,
                   sig, wakeAt, asyncVars>>

\* a run action that starts the function and does not wait for it
BeginRunDetached ==
    /\ AtAction({"run"})
    /\ fnBusy' = TRUE
    /\ trace' = trace \o <<(<<"begin", pc>>), (<<"end", pc>>)>>
    /\ pc' = pc + 1
    /\ UNCHANGED <<pipeVars, peerVars, conn, flow, onTime, prev,
                   calls, phase, testErr, effects,
                   sig, wakeAt, asyncVars>>

\* line 197: action.fn() is called
BeginRun ==
    /\ AtAction({"run"})
    /\ Begun
    /\ fnBusy' = TRUE
    /\ phase' = "run"
    /\ UNCHANGED <<pipeVars, peerVars, conn, flow, onTime, prev,
                   calls, pc, testErr, effects,
                   sig, wakeAt, asyncVars>>

\* the function of the run action returns
FnReturn ==
    /\ Running
    /\ fnBusy
    /\ fnBusy' = FALSE
    /\ effects' = effects + 1
    /\ UNCHANGED <<pipeVars, peerVars, conn, flow, onTime, prev,
                   calls, pc, phase, testErr, trace,
                   sig, wakeAt, asyncVars>>

EndRun ==
    /\ Running
    /\ phase = "run"
    /\ ~fnBusy
    /\ Completed
    /\ UNCHANGED <<pipeVars, peerVars, conn, onTime, prev,
                   calls, testErr, fnBusy, effects,
                   sig, wakeAt, asyncVars>>

\* line 199: time.Sleep(action.duration)
BeginDelay ==
    /\ AtAction({"delay"})
    /\ Begun
    /\ wakeAt' = now + flow[pc].duration
    /\ phase' = "sleep"
    /\ UNCHANGED <<pipeVars, peerVars, conn, flow, onTime, prev,
                   calls, pc, testErr, fnBusy,
                   effects, sig, asyncVars>>

EndDelay ==
    /\ Running
    /\ phase = "sleep"
    /\ now >= wakeAt
    /\ Completed
    /\ UNCHANGED <<pipeVars, peerVars, conn, onTime, prev,
                   calls, testErr, fnBusy, effects,
                   sig, wakeAt, asyncVars>>

\* line 216: the loop is over, return nil
TestReturn ==
    /\ Running
    /\ phase = "loop"
    /\ pc > Len(flow)
    /\ phase' = "returned"
    /\ testErr' = NoErr
    /\ onTime' = (now < deadline)
    /\ UNCHANGED <<pipeVars, peerVars, conn, flow, prev,
                   calls, pc, trace, fnBusy,
                   effects, sig, wakeAt, asyncVars>>

TestStep ==
    \/ BeginSend
    \/ BeginReceive
    \/ BeginClose
    \/ Check
    \/ BeginWait
    \/ EndWait
    \/ BeginRun
    \/ FnReturn
    \/ EndRun
    \/ BeginDelay
    \/ EndDelay
    \/ TestReturn

----------------------------------------------------------------------------
(* The environment of a flow under test *)

\* the calls a peer goroutine may make on the shared Pipe
PeerOps ==
    {[op |-> "send", pkt |-> pkt] : pkt \in PktValues}
        \cup {[op |-> "recv", pkt |-> NoPkt], [op |-> "close", pkt |-> NoPkt]}

\* the peers of at most n calls
Scripts(n) == UNION {[1..k -> PeerOps] : k \in 0..n}

AllScripts == Scripts(MaxPeerCalls)

\* the peer goroutine makes its next call (part_000 lines 21-30: a failed
\* assertion does not stop it)
PeerStep ==
    /\ Running
    /\ cst[Peer] = "idle"
    /\ ppc <= Len(script)
    /\ \/ /\ script[ppc].op = "send"
          /\ PipeSend(Peer, script[ppc].pkt)
       \/ /\ script[ppc].op = "recv"
          /\ PipeReceive(Peer)
       \/ /\ script[ppc].op = "close"
          /\ PipeClose(Peer)
    /\ ppc' = ppc + 1
    /\ UNCHANGED <<left, script, testVars, asyncVars>>

\* somebody closes the channel the wait actions wait for
Trigger ==
    /\ Running
    /\ ~sig
    /\ sig' = TRUE
    /\ UNCHANGED <<pipeVars, peerVars, conn, flow, onTime, prev,
                   calls, pc, phase, testErr, trace,
                   fnBusy, effects, wakeAt, asyncVars>>

\* somebody is waiting for the clock
TimerPending == phase = "sleep" \/ gst = "test"

\* a sleep or a timer has not expired yet
TimerRunning ==
    \/ phase = "sleep" /\ now < wakeAt
    \/ gst = "test" /\ now < deadline

\* time passes: as long as a timer runs, and up to MaxTime beyond that
Tick ==
    /\ Running
    /\ TimerPending
    /\ now < MaxTime \/ TimerRunning
    /\ now' = now + 1
    /\ UNCHANGED <<pipeVars, peerVars, testVars, timeout, deadline, gst,
                   errCh, delivered>>

\* Test(conn) has just been called with one of the flows, on a fresh Pipe
\* shared with a peer goroutine or on another Conn
InitTest ==
    /\ NewPipe
    /\ left = [t \in Tasks |-> 0]
    /\ conn \in {"pipe", "stub"}
    /\ script \in (IF conn = "pipe" THEN AllScripts ELSE {<<>>})
    /\ ppc = 1
    /\ flow \in TestFlows
    /\ pc = 1
    /\ phase = "loop"
    /\ testErr = NoErr
    /\ trace = <<>>
    /\ fnBusy = FALSE
    /\ effects = 0
    /\ sig = FALSE
    /\ wakeAt = 0
    /\ onTime = FALSE
    /\ prev = <<>>
    /\ calls = <<>>
    /\ NoAsync

NextTest ==
    \/ TestStep
    \/ PeerStep
    \/ Trigger
    \/ Tick

SpecTest == InitTest /\ [][NextTest]_vars

----------------------------------------------------------------------------
(* Properties of Test, checked under SpecTest *)

ConnKinds == {"send", "receive", "skip", "close", "end"}

\* the executor is inside the action at pc
InAction == phase \in {"call", "wait", "run", "sleep"}

\* the action before pc has just completed and was of one of the kinds
JustCompleted(kinds) ==
    /\ phase = "loop"
    /\ pc > 1
    /\ flow[pc - 1].kind \in kinds

\* Test has returned the error of the action at pc, of one of the kinds
FailedAt(kinds) ==
    /\ phase = "returned"
    /\ testErr # NoErr
    /\ pc <= Len(flow)
    /\ flow[pc].kind \in kinds

\* the executor's pending connection call is the one of the action at pc
PendingCallMatches ==
    /\ phase = "call"
    /\ arg[Exec].op = (IF flow[pc].kind = "send" THEN "send" ELSE "recv")
    /\ flow[pc].kind \in {"send", "receive", "skip", "end"}

\* C6: Test runs the actions strictly in insertion order: the begin and end
\* events alternate, action by action; a connection call, a side effect or
\* a sleep in progress belongs to the action begun last, and that action is
\* the first one not yet completed.
OrderPreserved ==
    /\ \A k \in 1..Len(trace) :
           trace[k] = <<(IF k % 2 = 1 THEN "begin" ELSE "end"), (k + 1) \div 2>>
    /\ Len(trace) <= 2 * Len(flow)
    /\ InAction => Len(trace) = 2 * pc - 1
    /\ phase = "loop" => Len(trace) = 2 * (pc - 1)
    /\ cst[Exec] = "parked" => PendingCallMatches
    /\ fnBusy => phase = "run" /\ flow[pc].kind = "run"
    /\ phase = "sleep" => flow[pc].kind = "delay"
    /\ phase = "wait" => flow[pc].kind = "wait"
    /\ effects = Cardinality({i \in 1..Len(flow) :
                                 /\ flow[i].kind = "run"
                                 /\ \/ i < pc
                                    \/ i = pc /\ phase = "run" /\ ~fnBusy})

\* the four actions of the handshake flow have run to the end, against a
\* peer on the same Pipe
OrderPreservedWitness ==
    /\ conn = "pipe"
    /\ Len(script) = 3
    /\ Len(trace) = 8
    /\ phase = "returned"

\* the failure conditions of the actions that call the connection
Fails(a, ret) ==
    CASE a.kind = "send" -> ret.err # NoErr
      [] a.kind = "receive" ->
             \/ ret.err # NoErr
             \/ /\ a.packet # NoPkt
                /\ ret.pkt # NoPkt
                /\ String(a.packet) # String(ret.pkt)
      [] a.kind = "skip" -> ret.err # NoErr
      [] a.kind = "close" -> ret.err # NoErr
      [] a.kind = "end" ->
             \/ ret.err # NoErr /\ ~ContainsEOF(ret.err)
             \/ ret.pkt # NoPkt

\* the first words of the errors Test returns for an action of a kind
ErrorsOf(kind) ==
    CASE kind = "send" -> {"error sending packet:"}
      [] kind = "receive" -> {"expected to receive a packet but got error:",
                              "expected packet of"}
      [] kind = "skip" ->
             {"expected to skip over a received packet but got error:"}
      [] kind = "close" ->
             {"expected connection to close successfully but got error:"}
      [] kind = "end" -> {"expected EOF but got",
                          "expected no packet but got"}

FirstFailureState ==
    /\ JustCompleted(ConnKinds) => ~Fails(flow[pc - 1], last[Exec])
    /\ (phase = "returned" /\ testErr = NoErr) =>
           /\ pc = Len(flow) + 1
           /\ Len(trace) = 2 * Len(flow)
    /\ (phase = "returned" /\ testErr # NoErr) =>
           /\ FailedAt(ConnKinds)
           /\ Fails(flow[pc], last[Exec])
           /\ testErr[1] \in ErrorsOf(flow[pc].kind)
           /\ Len(trace) = 2 * pc - 1

FirstFailureStep ==
    /\ phase = "returned" =>
           /\ UNCHANGED <<phase, testErr, pc, trace, effects, fnBusy>>
           /\ last'[Exec] = last[Exec]
           /\ cst'[Exec] = "idle"
    /\ (phase # "returned" /\ phase' = "returned" /\ testErr' # NoErr) =>
           closed' = closed

\* C7: Test returns an error exactly for the first failing action and runs
\* nothing after it, the failing return leaves the connection as it is (a
\* Pipe that was open stays open), and Test returns nil only after every
\* action has completed.
FirstFailureStops == []FirstFailureState /\ [][FirstFailureStep]_vars

\* Test has failed at its second action on a Pipe that is still open, with
\* actions left in the flow
FirstFailureStopsWitness ==
    /\ conn = "pipe"
    /\ phase = "returned"
    /\ testErr # NoErr
    /\ pc = 2
    /\ Len(flow) > 2
    /\ ~closed

\* C8 (as claimed): on a Pipe an end action succeeds only when Receive
\* yielded an end-of-stream error and no packet.
EndOnlyOnEOF ==
    (conn = "pipe" /\ JustCompleted({"end"})) =>
        /\ last[Exec].pkt = NoPkt
        /\ ContainsEOF(last[Exec].err)

\* C9: a receive action succeeds exactly when Receive returned a packet
\* without error whose rendering equals the expected packet's; on a
\* mismatch the error holds both renderings, and on a Receive error it is
\* the wrapped receive error.  (A nil packet has no rendering: String()
\* on it panics.)
ReceiveMatches ==
    /\ JustCompleted({"receive"}) =>
           /\ last[Exec].err = NoErr
           /\ last[Exec].pkt # NoPkt
           /\ String(last[Exec].pkt) = String(flow[pc - 1].packet)
    /\ FailedAt({"receive"}) =>
           \/ /\ last[Exec].err # NoErr
              /\ testErr = <<"expected to receive a packet but got error:">>
                               \o last[Exec].err
           \/ /\ last[Exec].err = NoErr
              /\ last[Exec].pkt # NoPkt
              /\ String(last[Exec].pkt) # String(flow[pc].packet)
              /\ \E i, j \in 1..Len(testErr) :
                     /\ i < j
                     /\ testErr[i] = String(flow[pc].packet)
                     /\ testErr[j] = String(last[Exec].pkt)
    /\ (panicked = "nil pointer dereference") =>
           /\ flow[pc].kind = "receive"
           /\ last[Exec].err = NoErr
           /\ last[Exec].pkt = NoPkt \/ flow[pc].packet = NoPkt

\* expected CONNECT, received CONNACK from the peer on the Pipe: the
\* receive action failed and its message names both
ReceiveMatchesWitness ==
    /\ conn = "pipe"
    /\ FailedAt({"receive"})
    /\ testErr = <<"expected packet of", "CONNECT", "but got", "CONNACK">>
    /\ last[Exec].peer = Peer

\* the executor calls Close on the Pipe in this step
ExecCloses ==
    /\ conn = "pipe"
    /\ phase = "loop" /\ phase' = "call"
    /\ flow[pc].kind = "close"

\* the peer goroutine calls Close on the Pipe in this step
PeerCloses == ppc' = ppc + 1 /\ script[ppc].op = "close"

\* what a call of Close does: the first closes the Pipe and returns nil to
\* its caller, any later one ends the program and returns to nobody
CloseOnceStep ==
    /\ (ExecCloses \/ PeerCloses) =>
           IF closed
           THEN /\ panicked' = "close of closed channel"
                /\ last' = last
                /\ closed'
           ELSE /\ panicked' = "none"
                /\ closed'
                /\ \E c \in {Exec, Peer} :
                       last'[c] = Ret("close", NoPkt, NoPkt, NoErr, "none",
                                      FALSE)
    /\ closed => closed'
    /\ panicked = "none"

\* on a Pipe a Close that returned was the first one, and it returned nil
CloseOnceState ==
    conn = "pipe" =>
        /\ \A t \in Tasks :
               last[t].op = "close" =>
                   /\ last[t].err = NoErr
                   /\ ~last[t].afterClose
                   /\ closed
        /\ Cardinality({t \in Tasks : last[t].op = "close"}) <= 1
        /\ panicked = "close of closed channel" => closed

\* C12: the close signal of a Pipe is triggered exactly once: the first
\* Close closes the Pipe and returns no error; a second Close, by the same
\* task or another one, a second close action of a flow included, is a
\* fatal fault (a panic that ends the program: no step follows it), not a
\* return and not an error value.
CloseOnce == []CloseOnceState /\ [][CloseOnceStep]_vars

\* the second close action of a flow has ended the program, the first one
\* had returned nil, and the peer has made no call
CloseOnceWitness ==
    /\ conn = "pipe"
    /\ flow = FlowClose(FlowClose(New))
    /\ ppc = 1
    /\ pc = 2
    /\ trace = <<(<<"begin", 1>>), (<<"end", 1>>), (<<"begin", 2>>)>>
    /\ last[Exec].op = "close" /\ last[Exec].err = NoErr
    /\ panicked = "close of closed channel"

----------------------------------------------------------------------------
(* The same flow run again: Test(conn) is called once more on the Flow,    *)
(* with a fresh Pipe and a peer goroutine that makes the same calls.       *)

\* Test has returned; the caller makes a new Pipe (lines 28-33), starts the
\* same peer on it, and calls Test on the same Flow again.  The channel of
\* the wait actions and the clock are what the first run left.
Rerun ==
    /\ Running
    /\ phase = "returned"
    /\ Len(prev) < MaxRuns - 1
    /\ prev' = Append(prev, [err |-> testErr, trace |-> trace])
    /\ closed' = FALSE
    /\ sendq' = <<>>
    /\ recvq' = <<>>
    /\ cst' = [t \in Tasks |-> "idle"]
    /\ arg' = [t \in Tasks |-> NoCall]
    /\ last' = [t \in Tasks |-> NoRet]
    /\ nSendNil' = 0
    /\ nRecvPkt' = 0
    /\ sentLog' = <<>>
    /\ recvLog' = <<>>
    /\ woken' = {}
    /\ ppc' = 1
    /\ pc' = 1
    /\ phase' = "loop"
    /\ testErr' = NoErr
    /\ trace' = <<>>
    /\ UNCHANGED <<panicked, left, script, conn, flow, fnBusy, effects, sig,
                   wakeAt, onTime, calls, asyncVars>>

InitRerun ==
    /\ InitTest
    /\ conn = "pipe"
    /\ script \in Scripts(MaxRerunPeerCalls)

NextRerun ==
    \/ TestStep
    \/ PeerStep
    \/ Trigger
    \/ Tick
    \/ Rerun

SpecRerun == InitRerun /\ [][NextRerun]_vars

\* C15: Test keeps no execution state in the flow: no step of a run
\* changes the action sequence, and a later run of the same flow on a
\* fresh connection with a peer making the same calls executes the same
\* actions from the first one and returns the same result.
FlowReusable ==
    /\ [][flow' = flow]_vars
    /\ [](trace # <<>> => trace[1] = <<"begin", 1>>)
    /\ []((prev # <<>> /\ phase = "returned") =>
              /\ testErr = prev[Len(prev)].err
              /\ trace = prev[Len(prev)].trace)

\* the second run has failed as the first one did, in a later action
FlowReusableWitness ==
    /\ prev # <<>>
    /\ phase = "returned"
    /\ testErr # NoErr
    /\ testErr = prev[1].err
    /\ pc > 1
    /\ trace = prev[1].trace


----------------------------------------------------------------------------
(* Test on a Pipe that the peer may close under it.  A goroutine that can  *)
(* run is scheduled eventually, hence the weak fairness.                   *)

SpecTestOnPipe ==
    /\ InitRerun
    /\ [][NextTest]_vars
    /\ WF_vars(TestStep)
    /\ WF_vars(PeerStep)

\* the executor is parked in the Pipe call of a send or receive action
PendingSendOrReceive ==
    /\ phase = "call"
    /\ cst[Exec] = "parked"
    /\ flow[pc].kind \in {"send", "receive"}

\* the Pipe call of the send or receive action at pc has returned from its
\* close case
InterruptedByClose ==
    /\ phase = "call"
    /\ cst[Exec] = "idle"
    /\ flow[pc].kind \in {"send", "receive"}
    /\ last[Exec].afterClose
    /\ last[Exec].peer = "none"

\* the error Test makes of the error of the interrupted call
WrappedInterruption ==
    IF flow[pc].kind = "send"
    THEN <<"error sending packet:">> \o ErrAlreadyClosed
    ELSE <<"expected to receive a packet but got error:">> \o EOF

\* C17: when Test is blocked in the Pipe call of a send or receive action
\* and another task closes the Pipe, the call returns with an error, and
\* Test returns that error wrapped, at the same action, without running a
\* later one: it never goes on with the script past the interrupted
\* action.  (Only the program dying of a double Close keeps Test from
\* returning.)
InterruptedFails ==
    /\ [][(PendingSendOrReceive /\ ~closed /\ closed') =>
              /\ InterruptedByClose'
              /\ Exec \in woken'
              /\ last'[Exec].err # NoErr]_vars
    /\ [][(InterruptedByClose /\ phase' # "call") =>
              /\ phase' = "returned"
              /\ testErr' = WrappedInterruption
              /\ pc' = pc
              /\ trace' = trace]_vars
    /\ InterruptedByClose ~> (phase = "returned" \/ ~Running)

\* the peer closed the Pipe while the second action, a receive, was
\* pending: Test has returned the wrapped end-of-stream error at action 2
InterruptedFailsWitness ==
    /\ Exec \in woken
    /\ last[Peer].op = "close"
    /\ phase = "returned"
    /\ pc = 2
    /\ flow[pc].kind = "receive"
    /\ Len(flow) > pc
    /\ testErr = <<"expected to receive a packet but got error:">> \o EOF
    /\ trace = <<(<<"begin", 1>>), (<<"end", 1>>), (<<"begin", 2>>)>>


----------------------------------------------------------------------------
(* Building a flow: the builder methods called one after the other on the  *)
(* Flow returned by New, flow.go lines 88-169.                             *)

\* the durations handed to Delay
Durations == {1, 2}

\* a builder method has been called: f.actions is what the method made of
\* it, and the method returns f
Built(f, call) ==
    /\ Len(flow) < MaxFlowLen
    /\ phase = "unused"
    /\ flow' = f
    /\ calls' = Append(calls, call)
    /\ UNCHANGED <<pipeVars, peerVars, conn, pc, phase, testErr, trace,
                   fnBusy, effects, sig, wakeAt, onTime, prev, asyncVars>>

Call(method, packet, duration) ==
    [method |-> method, packet |-> packet, duration |-> duration]

BuildSend(pkt) == Built(FlowSend(flow, pkt), Call("Send", pkt, 0))
BuildReceive(pkt) == Built(FlowReceive(flow, pkt), Call("Receive", pkt, 0))
BuildSkip == Built(FlowSkip(flow), Call("Skip", NoPkt, 0))
BuildWait == Built(FlowWait(flow), Call("Wait", NoPkt, 0))
BuildRun == Built(FlowRun(flow), Call("Run", NoPkt, 0))
BuildDelay(d) == Built(FlowDelay(flow, d), Call("Delay", NoPkt, d))
BuildClose == Built(FlowClose(flow), Call("Close", NoPkt, 0))
BuildEnd == Built(FlowEnd(flow), Call("End", NoPkt, 0))

\* New() has returned an empty Flow; there is a Pipe nobody uses yet
InitBuild ==
    /\ NewPipe
    /\ left = [t \in Tasks |-> 0]
    /\ script = <<>>
    /\ ppc = 1
    /\ NoTest
    /\ flow = New
    /\ NoAsync

NextBuild ==
    \/ \E pkt \in PktValues : BuildSend(pkt)
    \/ \E pkt \in PktValues : BuildReceive(pkt)
    \/ BuildSkip
    \/ BuildWait
    \/ BuildRun
    \/ \E d \in Durations : BuildDelay(d)
    \/ BuildClose
    \/ BuildEnd

SpecBuild == InitBuild /\ [][NextBuild]_vars

\* the kind of action each builder method stands for
KindOf(method) ==
    CASE method = "Send" -> "send"
      [] method = "Receive" -> "receive"
      [] method = "Skip" -> "skip"
      [] method = "Wait" -> "wait"
      [] method = "Run" -> "run"
      [] method = "Delay" -> "delay"
      [] method = "Close" -> "close"
      [] method = "End" -> "end"

\* the action sequence is the sequence of builder calls, in call order
ActionsAreCalls ==
    /\ Len(flow) = Len(calls)
    /\ \A i \in 1..Len(calls) :
           /\ flow[i].kind = KindOf(calls[i].method)
           /\ flow[i].packet = calls[i].packet
           /\ flow[i].duration = calls[i].duration

\* a builder call adds one action at the end, keeps the actions before it
\* and touches neither the connection nor the executor
AppendsOne ==
    /\ Len(flow') = Len(flow) + 1
    /\ SubSeq(flow', 1, Len(flow)) = flow
    /\ flow'[Len(flow')].kind = KindOf(calls'[Len(calls')].method)
    /\ pipeVars' = pipeVars
    /\ trace' = trace

\* C16: each builder method appends exactly one action of its own kind at
\* the end of the flow, leaves the actions appended before and their order
\* unchanged and performs no connection I/O; after any sequence of builder
\* calls the action sequence equals the sequence of calls in call order.
BuilderAppends == []ActionsAreCalls /\ [][AppendsOne]_vars

\* Delay(2) and then Send(CONNECT) have been called
BuilderAppendsWitness ==
    /\ calls = <<Call("Delay", NoPkt, 2), Call("Send", Connect, 0)>>
    /\ flow = <<Action("delay", NoPkt, 2), Action("send", Connect, 0)>>


----------------------------------------------------------------------------
(* The handshake of abstractServerTest (part_000 lines 13-48) on a Pipe:   *)
(* the flow against a peer goroutine.  A goroutine that can run is         *)
(* scheduled eventually, hence the weak fairness of both.                  *)

\* part_000 lines 21-30: Receive, Send(reply), Receive
ScenarioPeer(reply) ==
    <<[op |-> "recv", pkt |-> NoPkt],
      [op |-> "send", pkt |-> reply],
      [op |-> "recv", pkt |-> NoPkt]>>

InitScenario ==
    /\ NewPipe
    /\ left = [t \in Tasks |-> 0]
    /\ conn = "pipe"
    /\ script \in AllScripts
    /\ ppc = 1
    /\ flow = ScenarioFlow
    /\ pc = 1
    /\ phase = "loop"
    /\ testErr = NoErr
    /\ trace = <<>>
    /\ fnBusy = FALSE
    /\ effects = 0
    /\ sig = FALSE
    /\ wakeAt = 0
    /\ onTime = FALSE
    /\ prev = <<>>
    /\ calls = <<>>
    /\ NoAsync

NextScenario ==
    \/ BeginSend
    \/ BeginReceive
    \/ BeginClose
    \/ Check
    \/ TestReturn
    \/ PeerStep

SpecScenario ==
    /\ InitScenario
    /\ [][NextScenario]_vars
    /\ WF_vars(TestStep)
    /\ WF_vars(PeerStep)

\* the peer has made all its calls and the last one, a Receive, returned no
\* packet and io.EOF
PeerSawEOF ==
    /\ ppc > Len(script)
    /\ cst[Peer] = "idle"
    /\ last[Peer].op = "recv"
    /\ last[Peer].pkt = NoPkt
    /\ last[Peer].err = EOF

MismatchConnackPublish == <<"expected packet of", "CONNACK", "but got", "PUBLISH">>

\* C10: against the peer that receives, sends CONNACK and receives again,
\* the handshake flow always terminates, Test returns nil and the peer's
\* last Receive returns no packet and io.EOF; against the peer that sends
\* PUBLISH instead, Test returns the mismatch error naming CONNACK and
\* PUBLISH.
HandshakeScenario ==
    /\ [](script = ScenarioPeer(Connack) =>
              /\ Running
              /\ phase = "returned" => testErr = NoErr
              /\ (ppc > Len(script) /\ cst[Peer] = "idle") => PeerSawEOF)
    /\ [](script = ScenarioPeer(Publish) =>
              /\ Running
              /\ phase = "returned" => testErr = MismatchConnackPublish)
    /\ (script = ScenarioPeer(Connack)) ~>
           (phase = "returned" /\ testErr = NoErr /\ PeerSawEOF)
    /\ (script = ScenarioPeer(Publish)) ~>
           (phase = "returned" /\ testErr = MismatchConnackPublish)

\* the handshake has ended well on both sides
HandshakeScenarioWitness ==
    /\ script = ScenarioPeer(Connack)
    /\ phase = "returned"
    /\ testErr = NoErr
    /\ Len(trace) = 8
    /\ PeerSawEOF

----------------------------------------------------------------------------
(* Flow.TestAsync: flow.go lines 221-232 *)

\* errors.New("timed out waiting for flow to complete"), line 226
ErrTimedOut == <<"timed out waiting for flow to complete">>

\* line 222: make(chan error, 1)
ErrChCap == 1

Timeouts == 1..MaxTimeout

\* TestAsync(conn, timeout) has returned errCh; its goroutine has not run
InitAsync ==
    /\ NewPipe
    /\ left = [t \in Tasks |-> 0]
    /\ conn \in {"pipe", "stub"}
    /\ script \in (IF conn = "pipe" THEN Scripts(MaxAsyncPeerCalls)
                   ELSE {<<>>})
    /\ ppc = 1
    /\ flow \in TestFlows
    /\ pc = 1
    /\ phase = "notcalled"
    /\ testErr = NoErr
    /\ trace = <<>>
    /\ fnBusy = FALSE
    /\ effects = 0
    /\ sig = FALSE
    /\ wakeAt = 0
    /\ onTime = FALSE
    /\ prev = <<>>
    /\ calls = <<>>
    /\ now = 0
    /\ timeout \in Timeouts
    /\ deadline = 0
    /\ gst = "spawned"
    /\ errCh = <<>>
    /\ delivered = <<>>

\* the goroutine enters the select: the operands of the cases are evaluated
\* in source order, time.After(timeout) of line 225 and then f.Test(conn) of
\* line 227, which is called here and runs to its return
GoStart ==
    /\ Running
    /\ gst = "spawned"
    /\ deadline' = now + timeout
    /\ gst' = "test"
    /\ phase' = "loop"
    /\ UNCHANGED <<pipeVars, peerVars, conn, flow, onTime, prev,
                   calls, pc, testErr, trace, fnBusy,
                   effects, sig, wakeAt, now, timeout, errCh, delivered>>

\* case <-time.After(timeout) can proceed
TimerReady == now >= deadline

\* the send on a channel made without a buffer, which nobody is receiving
\* from
ErrChReadyUnbuffered == Len(errCh) < 0

\* case errCh <- ... can proceed
ErrChReady == Len(errCh) < ErrChCap

\* a send case that puts nil on the channel whatever Test returned
TestResultDropped == NoErr

\* line 227: the value of the operand f.Test(conn)
TestResult == testErr

\* f.Test(conn) has returned: the select takes one of the cases that can
\* proceed
Select ==
    /\ Running
    /\ gst = "test"
    /\ phase = "returned"
    /\ \/ /\ TimerReady
          /\ gst' = "timedout"
          /\ UNCHANGED errCh
       \/ /\ ErrChReady
          /\ errCh' = Append(errCh, TestResult)
          /\ gst' = "exited"
    /\ UNCHANGED <<pipeVars, peerVars, testVars, now, timeout, deadline,
                   delivered>>

\* a timer case that sends the timeout error and then goes on to send
\* Test's result as well
SendTimeoutThenResult ==
    /\ Running
    /\ gst = "timedout"
    /\ ErrChReady
    /\ errCh' = Append(errCh, ErrTimedOut)
    /\ gst' = "test"
    /\ UNCHANGED <<pipeVars, peerVars, testVars, now, timeout, deadline,
                   delivered>>

\* line 226: errCh <- errors.New("timed out ...")
SendTimeout ==
    /\ Running
    /\ gst = "timedout"
    /\ ErrChReady
    /\ errCh' = Append(errCh, ErrTimedOut)
    /\ gst' = "exited"
    /\ UNCHANGED <<pipeVars, peerVars, testVars, now, timeout, deadline,
                   delivered>>

\* the caller of TestAsync receives from the returned channel
CallerReceive ==
    /\ Running
    /\ errCh # <<>>
    /\ delivered' = Append(delivered, Head(errCh))
    /\ errCh' = Tail(errCh)
    /\ UNCHANGED <<pipeVars, peerVars, testVars, now, timeout, deadline, gst>>

GoStep ==
    \/ GoStart
    \/ Select
    \/ SendTimeout

NextAsync ==
    \/ GoStep
    \/ TestStep
    \/ PeerStep
    \/ CallerReceive
    \/ Trigger
    \/ Tick

\* goroutines that can run are scheduled and the clock advances; nobody is
\* bound to close the channel of a wait action or to read the result
SpecAsync ==
    /\ InitAsync
    /\ [][NextAsync]_vars
    /\ WF_vars(GoStep)
    /\ WF_vars(TestStep)
    /\ WF_vars(PeerStep)
    /\ WF_vars(Tick)

\* the values TestAsync has put on its result channel so far
Results == delivered \o errCh

\* C4 (as claimed): when the flow, run on a Pipe, has slept through a delay
\* longer than the timeout, the value on the result channel is the timeout
\* error, not Test's result.
TimeoutBeatsDelay ==
    \A i \in 1..Len(flow) :
        ( /\ conn = "pipe"
          /\ flow[i].kind = "delay"
          /\ flow[i].duration > timeout
          /\ i < pc ) =>
            \A k \in 1..Len(Results) : Results[k] = ErrTimedOut

\* C5 (as claimed, for a Test that never returns): once the deadline has
\* passed while Test is still running, the timeout error is eventually on
\* the result channel, unless Test returns after all or the program dies
\* of a panic.
TimeoutDelivered ==
    (gst = "test" /\ phase # "returned" /\ TimerReady)
        ~> \/ \E k \in 1..Len(Results) : Results[k] = ErrTimedOut
           \/ phase = "returned"
           \/ ~Running

\* C13 (as claimed): when Test has returned before the deadline, the values
\* on the result channel are Test's result, never the timeout error.
ResultWhenOnTime ==
    onTime => \A k \in 1..Len(Results) : Results[k] = testErr

\* the goroutine leaves its select while the timer has not fired
SelectsBeforeDeadline == gst = "test" /\ gst' # "test" /\ ~TimerReady

\* C13 (amended): when Test has returned and the goroutine's select chooses
\* before the deadline has elapsed, the value put on the result channel is
\* Test's result (nil on success, the same error on failure) and not the
\* timeout error; the timeout error is on the channel only when the
\* deadline had elapsed before the select chose.
ResultWhenSelectOnTime ==
    /\ [][SelectsBeforeDeadline =>
             /\ phase = "returned"
             /\ gst' = "exited"
             /\ errCh' = <<testErr>>
             /\ delivered' = <<>>]_vars
    /\ []((\E k \in 1..Len(Results) : Results[k] = ErrTimedOut)
             => TimerReady)
    /\ [](gst = "exited" => Results \in {<<testErr>>, <<ErrTimedOut>>})

\* Test failed before the deadline and its error is the value delivered,
\* the deadline still ahead
ResultWhenSelectOnTimeWitness ==
    /\ onTime
    /\ ~TimerReady
    /\ gst = "exited"
    /\ testErr # NoErr
    /\ delivered = <<testErr>>
    /\ errCh = <<>>

\* C14: in every execution of TestAsync at most one value is ever written
\* to the result channel, in whatever order the timer fires and Test
\* returns: nothing before the goroutine has exited, exactly one value
\* after, and the channel never holds more than its capacity.
OneResult ==
    /\ Len(Results) <= 1
    /\ Len(errCh) <= ErrChCap
    /\ gst = "exited" <=> Len(Results) = 1
    /\ \A k \in 1..Len(Results) : Results[k] \in {testErr, ErrTimedOut}

\* the timer had fired and Test had returned with an error: the timeout
\* error is the one value written, the caller has read it and the channel
\* is empty
OneResultWitness ==
    /\ phase = "returned"
    /\ testErr # NoErr
    /\ TimerReady
    /\ gst = "exited"
    /\ delivered = <<ErrTimedOut>>
    /\ errCh = <<>>

\* TestAsync with a peer of few calls
InitAsyncBrief ==
    /\ InitAsync
    /\ Len(script) <= MaxBriefPeerCalls

SpecAsyncBrief ==
    /\ InitAsyncBrief
    /\ [][NextAsync]_vars
    /\ WF_vars(GoStep)
    /\ WF_vars(TestStep)
    /\ WF_vars(PeerStep)
    /\ WF_vars(Tick)

\* C19: the goroutine started by TestAsync never blocks on delivering its
\* outcome: whenever it is about to send, the channel has room, and once
\* Test has returned it writes its value and terminates, whether or not
\* the caller ever reads the channel (short of the program dying of a
\* panic); it has terminated only after Test returned.
NeverBlocksOnResult ==
    /\ [](gst = "timedout" => ErrChReady)
    /\ []((gst = "test" /\ phase = "returned") => ErrChReady)
    /\ [](gst = "exited" => phase = "returned")
    /\ (gst = "test" /\ phase = "returned") ~> (gst = "exited" \/ ~Running)

\* the goroutine has written the timeout error and terminated, and the
\* caller has read nothing
NeverBlocksOnResultWitness ==
    /\ gst = "exited"
    /\ errCh = <<ErrTimedOut>>
    /\ delivered = <<>>
    /\ phase = "returned"

=============================================================================
